---- MODULE Spec2Model ----
(***************************************************************************)
(* Model of the emulator session layer of ias-editor (main.cjs) and of the *)
(* ANSI renderer it calls (ansi-to-html.cjs).                              *)
(*                                                                         *)
(* Text is a sequence of tokens.  A token is a string that stands for a    *)
(* fixed piece of text: one character ("a", " ", "{", "\r", "\n", ...),    *)
(* one JSON member (TYPE, FUTURE) or a run of ordinary characters (BLOCK). *)
(* Chunk boundaries fall between tokens.                                   *)
(***************************************************************************)
EXTENDS Integers, Sequences, FiniteSets, TLC

\* ------------------------------------------------------------------ bounds
MaxStarts == 2      \* calls of emulator:start
MaxOps == 5         \* calls, chunks and process exits of one run of Spec
MaxStream == 4      \* tokens one process writes to stdout (StreamSpec)
MaxPieces == 4      \* pieces of one text handed to the renderer (RenderSpec)
MaxRuns == 1        \* starts from the window in one run of UiSpec
MaxUiOps == 4       \* calls, chunks and process exits of one run of UiSpec
MaxCodes == 2       \* parameters of one style sequence (SgrSpec)
MaxScan == 3        \* pieces of one text scanned step by step (ScanSpec)
MaxBridgeOps == 4   \* calls of the bridge and events of one run of BridgeSpec

\* --------------------------------------------------------------- constants
MAX_TOTAL_OUTPUT == 65536

Null == "null"
NaN == 0 - 1

\* ------------------------------------------------------------------ tokens
TYPE == "\"type\":\"step\""
FUTURE == "\"type\":\"future\""
BLOCK == "BLOCK"
BlockLen == MAX_TOTAL_OUTPUT \div 2

\* String.prototype.length of the text a token stands for.
TokLen(tok) ==
    CASE tok = BLOCK -> BlockLen
      [] tok = TYPE -> 13
      [] tok = FUTURE -> 15
      [] tok = "ESC" -> 1
      [] OTHER -> 1

RECURSIVE StrLen(_)
StrLen(s) == IF s = <<>> THEN 0 ELSE TokLen(Head(s)) + StrLen(Tail(s))

RECURSIVE Concat(_)
Concat(ss) == IF ss = <<>> THEN <<>> ELSE Head(ss) \o Concat(Tail(ss))

Last(s) == s[Len(s)]
Front(s) == SubSeq(s, 1, Len(s) - 1)

\* -------------------------------------------------------------- the renderer
VARIABLES
    ansi,             \* the texts convertAnsiToHtml was called with, in order
    html,             \* what each call returned
    endStyle          \* the style state cur the last call ended with

rvars == <<ansi, html, endStyle>>

VARIABLES
    sgr,              \* one call of sgrToStyle: its codes, loop position and cur
    scan              \* one call of convertAnsiToHtml: its loop variables

svars == <<sgr, scan>>

\* Mutant: the double quote is left as it is.
htmlEscape_NoQuote(c) ==
    CASE c = "&" -> "&amp;"
      [] c = "<" -> "&lt;"
      [] c = ">" -> "&gt;"
      [] OTHER -> c

htmlEscape(c) ==
    CASE c = "&" -> "&amp;"
      [] c = "<" -> "&lt;"
      [] c = ">" -> "&gt;"
      [] c = "\"" -> "&quot;"
      [] OTHER -> c

CSS_COLORS(code) ==
    CASE code = 30 -> "black"
      [] code = 31 -> "red"
      [] code = 32 -> "green"
      [] code = 33 -> "yellow"
      [] code = 34 -> "blue"
      [] code = 35 -> "magenta"
      [] code = 36 -> "cyan"
      [] code = 37 -> "white"
      [] code = 90 -> "#808080"
      [] code = 91 -> "#ff5555"
      [] code = 92 -> "#55ff55"
      [] code = 93 -> "#ffff55"
      [] code = 94 -> "#5555ff"
      [] code = 95 -> "#ff55ff"
      [] code = 96 -> "#55ffff"
      [] code = 97 -> "#ffffff"
      [] OTHER -> Null

DefaultStyle ==
    [color |-> Null, background |-> Null, bold |-> FALSE,
     underline |-> FALSE, inverse |-> FALSE]

\* Mutant: code 0 keeps the foreground colour.
sgrApply_ResetKeepsColor(code, cur) ==
    IF code = 0 THEN [DefaultStyle EXCEPT !.color = cur.color]
    ELSE IF code = 1 THEN [cur EXCEPT !.bold = TRUE]
    ELSE IF code = 4 THEN [cur EXCEPT !.underline = TRUE]
    ELSE IF code = 7 THEN [cur EXCEPT !.inverse = TRUE]
    ELSE IF code = 21 \/ code = 22 THEN [cur EXCEPT !.bold = FALSE]
    ELSE IF code = 24 THEN [cur EXCEPT !.underline = FALSE]
    ELSE IF (code >= 30 /\ code <= 37) \/ (code >= 90 /\ code <= 97)
         THEN [cur EXCEPT !.color = CSS_COLORS(code)]
    ELSE IF (code >= 40 /\ code <= 47) \/ (code >= 100 /\ code <= 107)
         THEN [cur EXCEPT !.background =
                  CSS_COLORS(IF code >= 100 THEN code - 60 ELSE code - 10)]
    ELSE cur

sgrApply(code, cur) ==
    IF code = 0 THEN DefaultStyle
    ELSE IF code = 1 THEN [cur EXCEPT !.bold = TRUE]
    ELSE IF code = 4 THEN [cur EXCEPT !.underline = TRUE]
    ELSE IF code = 7 THEN [cur EXCEPT !.inverse = TRUE]
    ELSE IF code = 21 \/ code = 22 THEN [cur EXCEPT !.bold = FALSE]
    ELSE IF code = 24 THEN [cur EXCEPT !.underline = FALSE]
    ELSE IF (code >= 30 /\ code <= 37) \/ (code >= 90 /\ code <= 97)
         THEN [cur EXCEPT !.color = CSS_COLORS(code)]
    ELSE IF (code >= 40 /\ code <= 47) \/ (code >= 100 /\ code <= 107)
         THEN [cur EXCEPT !.background =
                  CSS_COLORS(IF code >= 100 THEN code - 60 ELSE code - 10)]
    ELSE cur

RECURSIVE sgrToStyle(_, _)
sgrToStyle(sgrList, cur) ==
    IF sgrList = <<>> THEN cur
    ELSE sgrToStyle(Tail(sgrList), sgrApply(Head(sgrList), cur))

RECURSIVE Join(_, _)
Join(items, sep) ==
    IF items = <<>> THEN <<>>
    ELSE IF Len(items) = 1 THEN Head(items)
    ELSE Head(items) \o <<sep>> \o Join(Tail(items), sep)

\* Mutant: inverse is not looked at.
styleToSpanOpen_NoSwap(cur) ==
    LET colours ==
            (IF cur.color # Null THEN <<<<"color:", cur.color>>>> ELSE <<>>)
            \o (IF cur.background # Null THEN <<<<"background:", cur.background>>>> ELSE <<>>)
        styles == colours
                  \o (IF cur.bold THEN <<<<"font-weight:700">>>> ELSE <<>>)
                  \o (IF cur.underline THEN <<<<"text-decoration:underline">>>> ELSE <<>>)
    IN  IF styles # <<>>
        THEN <<"<span style=\"">> \o Join(styles, ";") \o <<"\">">>
        ELSE <<>>

styleToSpanOpen(cur) ==
    LET colours ==
            IF cur.inverse
            THEN (IF cur.color # Null THEN <<<<"background:", cur.color>>>> ELSE <<>>)
                 \o (IF cur.background # Null THEN <<<<"color:", cur.background>>>> ELSE <<>>)
            ELSE (IF cur.color # Null THEN <<<<"color:", cur.color>>>> ELSE <<>>)
                 \o (IF cur.background # Null THEN <<<<"background:", cur.background>>>> ELSE <<>>)
        styles == colours
                  \o (IF cur.bold THEN <<<<"font-weight:700">>>> ELSE <<>>)
                  \o (IF cur.underline THEN <<<<"text-decoration:underline">>>> ELSE <<>>)
    IN  IF styles # <<>>
        THEN <<"<span style=\"">> \o Join(styles, ";") \o <<"\">">>
        ELSE <<>>

Digits == <<"0", "1", "2", "3", "4", "5", "6", "7", "8", "9">>
IsDigit(c) == \E d \in 1..10 : Digits[d] = c
DigitVal(c) == (CHOOSE d \in 1..10 : Digits[d] = c) - 1

RECURSIVE ParseDigits(_, _, _)
ParseDigits(s, k, acc) ==
    IF k <= Len(s) /\ IsDigit(s[k])
    THEN ParseDigits(s, k + 1, acc * 10 + DigitVal(s[k]))
    ELSE acc

RECURSIVE SkipSpaces(_, _)
SkipSpaces(s, k) ==
    IF k <= Len(s) /\ s[k] = " " THEN SkipSpaces(s, k + 1) ELSE k

\* parseInt(s || "0", 10), for text without a sign character.
parseInt(s) ==
    IF s = <<>> THEN 0
    ELSE LET k == SkipSpaces(s, 1)
         IN  IF k <= Len(s) /\ IsDigit(s[k]) THEN ParseDigits(s, k, 0) ELSE NaN

\* String.prototype.split(sep) for a one-token separator.
RECURSIVE SplitOn(_, _, _)
SplitOn(s, sep, acc) ==
    IF s = <<>> THEN <<acc>>
    ELSE IF Head(s) = sep THEN <<acc>> \o SplitOn(Tail(s), sep, <<>>)
    ELSE SplitOn(Tail(s), sep, Append(acc, Head(s)))

RECURSIVE MapParseInt(_)
MapParseInt(parts) ==
    IF parts = <<>> THEN <<>>
    ELSE <<parseInt(Head(parts))>> \o MapParseInt(Tail(parts))

RECURSIVE FindM(_, _)
FindM(input, j) ==
    IF j <= Len(input) /\ input[j] # "m" THEN FindM(input, j + 1) ELSE j

\* Mutant: no newline is ever found, the whole of out is dropped.
LastIndexOf_None(out, c, k) == 0

\* out.lastIndexOf(c), 1-based, 0 where there is none; k is where to look from.
RECURSIVE LastIndexOf(_, _, _)
LastIndexOf(out, c, k) ==
    IF k = 0 THEN 0
    ELSE IF out[k] = c THEN k
    ELSE LastIndexOf(out, c, k - 1)

RECURSIVE ReplaceAll(_, _, _)
ReplaceAll(s, from, to) ==
    IF s = <<>> THEN <<>>
    ELSE <<IF Head(s) = from THEN to ELSE Head(s)>> \o ReplaceAll(Tail(s), from, to)

PreOpen == "<pre style=\"white-space:pre-wrap; margin:0\">"
PreClose == "</pre>"

\* The codes of a style sequence with the text params between "[" and "m".
ParseParams(params) ==
    IF params # <<>> THEN MapParseInt(SplitOn(params, ";", <<>>)) ELSE <<0>>

\* Mutant: after an introducer without its "m" the scan goes on behind
\* the "[".
ScanStep_SkipsBracket(input, i, out, cur, openSpan) ==
    LET ch == input[i]
        at(n, o, c, s) == [i |-> n, out |-> o, cur |-> c, openSpan |-> s]
    IN
      IF ch = "ESC" /\ i + 1 <= Len(input) /\ input[i + 1] = "["
      THEN LET j == FindM(input, i + 2) IN
           IF j > Len(input)
           THEN at(i + 2, Append(out, htmlEscape(ch)), cur, openSpan)
           ELSE LET params == SubSeq(input, i + 2, j - 1)
                    nums == ParseParams(params)
                    closed == IF openSpan # <<>> THEN Append(out, "</span>") ELSE out
                    next == sgrToStyle(nums, cur)
                    spanOpen == styleToSpanOpen(next)
                IN  at(j + 1, closed \o spanOpen, next, spanOpen)
      ELSE IF ch = "\r"
      THEN LET lastNewline == LastIndexOf(out, "\n", Len(out))
           IN  at(i + 1, SubSeq(out, 1, lastNewline), cur, openSpan)
      ELSE IF ch = "\n"
      THEN at(i + 1, Append(out, "\n"), cur, openSpan)
      ELSE at(i + 1, Append(out, htmlEscape(ch)), cur, openSpan)

\* One iteration of the scanning loop of convertAnsiToHtml at the 1-based
\* position i <= Len(input): the position, output, style and open span
\* tag the iteration leaves.
ScanStep(input, i, out, cur, openSpan) ==
    LET ch == input[i]
        at(n, o, c, s) == [i |-> n, out |-> o, cur |-> c, openSpan |-> s]
    IN
      IF ch = "ESC" /\ i + 1 <= Len(input) /\ input[i + 1] = "["
      THEN LET j == FindM(input, i + 2) IN
           IF j > Len(input)
           THEN at(i + 1, Append(out, htmlEscape(ch)), cur, openSpan)
           ELSE LET params == SubSeq(input, i + 2, j - 1)
                    nums == ParseParams(params)
                    closed == IF openSpan # <<>> THEN Append(out, "</span>") ELSE out
                    next == sgrToStyle(nums, cur)
                    spanOpen == styleToSpanOpen(next)
                IN  at(j + 1, closed \o spanOpen, next, spanOpen)
      ELSE IF ch = "\r"
      THEN LET lastNewline == LastIndexOf(out, "\n", Len(out))
           IN  at(i + 1, SubSeq(out, 1, lastNewline), cur, openSpan)
      ELSE IF ch = "\n"
      THEN at(i + 1, Append(out, "\n"), cur, openSpan)
      ELSE at(i + 1, Append(out, htmlEscape(ch)), cur, openSpan)

\* The scanning loop of convertAnsiToHtml from position i to the end.
RECURSIVE ScanLoop(_, _, _, _, _)
ScanLoop(input, i, out, cur, openSpan) ==
    IF i > Len(input)
    THEN [out |-> out, cur |-> cur, openSpan |-> openSpan]
    ELSE LET n == ScanStep(input, i, out, cur, openSpan)
         IN  ScanLoop(input, n.i, n.out, n.cur, n.openSpan)

\* What convertAnsiToHtml returns once the loop has ended with out and
\* openSpan.
WrapPre(out, openSpan) ==
    LET closed == IF openSpan # <<>> THEN Append(out, "</span>") ELSE out
    IN  <<PreOpen>> \o ReplaceAll(closed, "\n", "<br>") \o <<PreClose>>

\* Mutant: the scan starts from the style the call before ended with.
convertAnsiToHtml_KeepsStyle(input) ==
    LET r == ScanLoop(input, 1, <<>>, endStyle, <<>>)
        out == IF r.openSpan # <<>> THEN Append(r.out, "</span>") ELSE r.out
    IN  <<PreOpen>> \o ReplaceAll(out, "\n", "<br>") \o <<PreClose>>

convertAnsiToHtml(input) ==
    LET r == ScanLoop(input, 1, <<>>, DefaultStyle, <<>>)
    IN  WrapPre(r.out, r.openSpan)

\* ------------------------------------------------- framing and classifying
\* Mutant: only "\n" ends a line; a "\r" before it stays in the line.
RECURSIVE SplitLines_NewlineOnly(_, _)
SplitLines_NewlineOnly(s, acc) ==
    IF s = <<>> THEN <<acc>>
    ELSE IF Head(s) = "\n" THEN <<acc>> \o SplitLines_NewlineOnly(Tail(s), <<>>)
    ELSE SplitLines_NewlineOnly(Tail(s), Append(acc, Head(s)))

\* String.prototype.split(/\r?\n/): the segments between terminators, the
\* last one being the text after the last terminator.
RECURSIVE SplitLines(_, _)
SplitLines(s, acc) ==
    IF s = <<>> THEN <<acc>>
    ELSE IF Head(s) = "\n" THEN <<acc>> \o SplitLines(Tail(s), <<>>)
    ELSE IF Head(s) = "\r" /\ Len(s) >= 2 /\ s[2] = "\n"
         THEN <<acc>> \o SplitLines(Tail(Tail(s)), <<>>)
    ELSE SplitLines(Tail(s), Append(acc, Head(s)))

\* Mutant: the pending text is not put before the new chunk.
FrameChunk_DropsPending(buffer, dataStr) ==
    LET parts == SplitLines(dataStr, <<>>)
    IN  [lines |-> Front(parts), buffer |-> Last(parts)]

\* buffer += dataStr; lines = buffer.split(/\r?\n/); buffer = lines.pop() || ""
FrameChunk(buffer, dataStr) ==
    LET parts == SplitLines(buffer \o dataStr, <<>>)
    IN  [lines |-> Front(parts), buffer |-> Last(parts)]

IsWhitespace(tok) == tok \in {" ", "\r", "\n"}

RECURSIVE Strip(_)
Strip(s) ==
    IF s = <<>> THEN <<>>
    ELSE IF IsWhitespace(Head(s)) THEN Strip(Tail(s))
    ELSE <<Head(s)>> \o Strip(Tail(s))

\* JSON.parse of a line: ok is FALSE where it throws; value lists the
\* members of the parsed object.
JSONParse(line) ==
    LET t == Strip(line)
    IN  IF t = <<"{", "}">> THEN [ok |-> TRUE, value |-> <<>>]
        ELSE IF Len(t) = 3 /\ t[1] = "{" /\ t[2] \in {TYPE, FUTURE} /\ t[3] = "}"
             THEN [ok |-> TRUE, value |-> <<t[2]>>]
        ELSE [ok |-> FALSE, value |-> <<>>]

startsWith(line, tok) == line # <<>> /\ Head(line) = tok
trim(line) == IF \A k \in 1..Len(line) : IsWhitespace(line[k]) THEN <<>> ELSE line

Event(ch, src, kind, val, code) ==
    [ch |-> ch, src |-> src, kind |-> kind, val |-> val, code |-> code]

\* Mutant: a line that fails to parse goes through the renderer too.
ClassifyLine_RendersMalformed(p, line) ==
    IF startsWith(line, "{") /\ JSONParse(line).ok
    THEN <<Event("emulator:response", p, "json", JSONParse(line).value, 0)>>
    ELSE IF trim(line) # <<>>
         THEN <<Event("emulator:output", p, "html", convertAnsiToHtml(line), 0)>>
    ELSE <<>>

\* Mutant: the line is trimmed before it is tested for a leading brace.
ClassifyLine_Trimmed(p, line) ==
    IF startsWith(Strip(line), "{")
    THEN IF JSONParse(line).ok
         THEN <<Event("emulator:response", p, "json", JSONParse(line).value, 0)>>
         ELSE <<Event("emulator:output", p, "raw", line, 0)>>
    ELSE IF trim(line) # <<>>
         THEN <<Event("emulator:output", p, "html", convertAnsiToHtml(line), 0)>>
    ELSE <<>>

\* The body of lines.forEach: the events one complete line sends.
ClassifyLine(p, line) ==
    IF startsWith(line, "{")
    THEN IF JSONParse(line).ok
         THEN <<Event("emulator:response", p, "json", JSONParse(line).value, 0)>>
         ELSE <<Event("emulator:output", p, "raw", line, 0)>>
    ELSE IF trim(line) # <<>>
         THEN <<Event("emulator:output", p, "html", convertAnsiToHtml(line), 0)>>
    ELSE <<>>

RECURSIVE ClassifyLines(_, _)
ClassifyLines(p, lines) ==
    IF lines = <<>> THEN <<>>
    ELSE ClassifyLine(p, Head(lines)) \o ClassifyLines(p, Tail(lines))

\* ------------------------------------------------------------ session state
Procs == 1..MaxStarts
NoCode == 0 - 1

VARIABLES
    emulatorProcess,  \* the module-level handle: 0 (null) or a process
    spawned,          \* number of processes spawned so far
    st,               \* per process: none, alive, failed, dead, exited, errored
    ignoresTerm,      \* per process: it ignores SIGTERM
    exitCode,         \* per process: the code its exit reports (NoCode: null)
    totalOutput,      \* per process: the closure's totalOutput
    buffer,           \* per process: the closure's buffer
    timers,           \* pending forced-kill timers, named by the process stopped
    events,           \* per process: what its callbacks sent to the window
    cmdResult,        \* what the last emulator:command returned
    dialogs,          \* error boxes shown
    uncaught,         \* exceptions thrown out of a callback
    stdin,            \* per process: the text written to its input
    signals,          \* per process: the signals sent to it
    received,         \* per process: the stdout text delivered so far
    errReceived,      \* per process: the stderr chunks delivered
    framed,           \* per process: the lines handed to the classifier
    overflowHits,     \* per process: chunks that took the overflow branch
    stopped,          \* processes emulator:stop signalled
    replaced,         \* processes a later start signalled
    ops               \* calls, chunks and process exits so far

vars == <<emulatorProcess, spawned, st, ignoresTerm, exitCode, totalOutput,
          buffer, timers, events, cmdResult, dialogs, uncaught, stdin, signals,
          received, errReceived, framed, overflowHits, stopped, replaced, ops>>

\* The window (App.tsx) and the file it edits.
VARIABLES
    isRunning,        \* App's isRunning state
    runPc,            \* where handleRunProgram is: idle, saving, starting
    editorCode,       \* App's code state: the editor content
    payload,          \* the content handed to file:save
    disk,             \* the content of the current file on disk
    uiSeen            \* per process: how many of its events reached the window

uvars == <<isRunning, runPc, editorCode, payload, disk, uiSeen>>

SessionInit ==
    /\ emulatorProcess = 0
    /\ spawned = 0
    /\ st = [p \in Procs |-> "none"]
    /\ ignoresTerm = [p \in Procs |-> FALSE]
    /\ exitCode = [p \in Procs |-> NoCode]
    /\ totalOutput = [p \in Procs |-> 0]
    /\ buffer = [p \in Procs |-> <<>>]
    /\ timers = {}
    /\ events = [p \in Procs |-> <<>>]
    /\ cmdResult = "none"
    /\ dialogs = 0
    /\ uncaught = 0
    /\ stdin = [p \in Procs |-> <<>>]
    /\ signals = [p \in Procs |-> <<>>]
    /\ received = [p \in Procs |-> <<>>]
    /\ errReceived = [p \in Procs |-> <<>>]
    /\ framed = [p \in Procs |-> <<>>]
    /\ overflowHits = [p \in Procs |-> 0]
    /\ stopped = {}
    /\ replaced = {}
    /\ ops = 0

\* No text was rendered yet.
RenderIdle ==
    /\ ansi = <<>>
    /\ html = <<>>
    /\ endStyle = DefaultStyle

\* A file is open, its content edited since it was last written.
UiIdle ==
    /\ isRunning = FALSE
    /\ runPc = "idle"
    /\ editorCode = 1
    /\ payload = 0
    /\ disk = 0
    /\ uiSeen = [p \in Procs |-> 0]

VARIABLES
    listeners,        \* preload's map: per channel the wrapper it registered, or none
    registered,       \* ipcRenderer: per channel the listeners added and not removed
    lastCalls,        \* the callbacks the last event emitted invoked, in order
    bridgeOps         \* calls of the bridge and events emitted so far

bvars == <<listeners, registered, lastCalls, bridgeOps>>

Channels == {"response", "output", "error", "exit"}
NoListener == [id |-> 0, callback |-> 0]

\* No sgrToStyle and no convertAnsiToHtml call is under way.
ScanIdle ==
    /\ sgr = [pc |-> "idle", params |-> <<>>, sgrList |-> <<>>, k |-> 0,
              cur |-> DefaultStyle]
    /\ scan = [pc |-> "idle", input |-> <<>>, i |-> 0, out |-> <<>>,
               cur |-> DefaultStyle, openSpan |-> <<>>, html |-> <<>>]

\* The preload script has run: nothing is registered.
BridgeIdle ==
    /\ listeners = [ch \in Channels |-> NoListener]
    /\ registered = [ch \in Channels |-> <<>>]
    /\ lastCalls = <<>>
    /\ bridgeOps = 0

\* The other parts of the application, which a step of the session leaves alone.
xvars == <<rvars, uvars, svars, bvars>>

Init == SessionInit /\ RenderIdle /\ UiIdle /\ ScanIdle /\ BridgeIdle

\* ChildProcess.kill(sig) on process p: the signal goes out while node still
\* holds the process; it ends an alive process unless that ignores it.
Signal(sig, by, src) == [sig |-> sig, by |-> by, src |-> src]
Dies(p, sig) == st[p] = "alive" /\ (sig = "SIGKILL" \/ ~ignoresTerm[p])
KillSt(p, sig) == IF Dies(p, sig) THEN [st EXCEPT ![p] = "dead"] ELSE st
KillCode(p, sig) == IF Dies(p, sig) THEN [exitCode EXCEPT ![p] = NoCode] ELSE exitCode
KillSignals(p, sig, by, src) ==
    IF st[p] \in {"alive", "dead"}
    THEN [signals EXCEPT ![p] = Append(@, Signal(sig, by, src))]
    ELSE signals

\* ------------------------------------------------------------------ inputs
ExitCodes == {0, 1}
Commands == {"step", "exit"}
\* stdout chunks of Spec: a pipe read is at most 65536 characters long.
SessionChunks == {<<BLOCK, BLOCK>>, <<"a", "\n">>}
ErrChunks == {<<"a", "\n">>, <<"Error parsing", "\n">>}
StreamAlphabet == {"a", " ", "{", "}", TYPE, FUTURE, "\r", "\n"}
StreamChunks(n) == UNION {[1..k -> StreamAlphabet] : k \in 1..n}

OverflowMessage == <<"Emulator output exceeded limit. Process killed.">>
SpawnFailedMessage == <<"Failed to start emulator: ", "err.message">>

\* --------------------------------------------------------------- operations
\* Mutant: the process at the handle is killed before the executable is
\* looked for.
Start_KillsFirst(resolves, outcome, ign) ==
    /\ spawned + dialogs < MaxStarts
    /\ ops' = ops + 1
    /\ IF ~resolves
       THEN LET old == emulatorProcess
            IN  /\ dialogs' = dialogs + 1
                /\ emulatorProcess' = 0
                /\ st' = IF old # 0 THEN KillSt(old, "SIGTERM") ELSE st
                /\ exitCode' = IF old # 0 THEN KillCode(old, "SIGTERM") ELSE exitCode
                /\ signals' = IF old # 0
                              THEN KillSignals(old, "SIGTERM", "start", old)
                              ELSE signals
                /\ UNCHANGED <<spawned, ignoresTerm, totalOutput, buffer, replaced>>
       ELSE LET p == spawned + 1
                old == emulatorProcess
            IN  /\ spawned' = p
                /\ emulatorProcess' = p
                /\ st' = [(IF old # 0 THEN KillSt(old, "SIGTERM") ELSE st)
                             EXCEPT ![p] = outcome]
                /\ exitCode' = IF old # 0 THEN KillCode(old, "SIGTERM") ELSE exitCode
                /\ signals' = IF old # 0
                              THEN KillSignals(old, "SIGTERM", "start", p)
                              ELSE signals
                /\ replaced' = IF old # 0 THEN replaced \cup {old} ELSE replaced
                /\ ignoresTerm' = [ignoresTerm EXCEPT ![p] = ign]
                /\ totalOutput' = [totalOutput EXCEPT ![p] = 0]
                /\ buffer' = [buffer EXCEPT ![p] = <<>>]
                /\ UNCHANGED dialogs
    /\ UNCHANGED <<timers, events, cmdResult, uncaught, stdin, received,
                   errReceived, framed, overflowHits, stopped>>

\* spawnEmulator(programPath, debugMode), as emulator:start calls it.
\* resolves: getEmulatorPath() found the executable; outcome: the spawn
\* succeeded (alive) or will report an error (failed); ign: the process
\* spawned ignores SIGTERM.
Start(resolves, outcome, ign) ==
    /\ spawned + dialogs < MaxStarts
    /\ ops' = ops + 1
    /\ IF ~resolves
       THEN /\ dialogs' = dialogs + 1
            /\ UNCHANGED <<emulatorProcess, spawned, st, ignoresTerm, exitCode,
                           totalOutput, buffer, signals, replaced>>
       ELSE LET p == spawned + 1
                old == emulatorProcess
            IN  /\ spawned' = p
                /\ emulatorProcess' = p
                /\ st' = [(IF old # 0 THEN KillSt(old, "SIGTERM") ELSE st)
                             EXCEPT ![p] = outcome]
                /\ exitCode' = IF old # 0 THEN KillCode(old, "SIGTERM") ELSE exitCode
                /\ signals' = IF old # 0
                              THEN KillSignals(old, "SIGTERM", "start", p)
                              ELSE signals
                /\ replaced' = IF old # 0 THEN replaced \cup {old} ELSE replaced
                /\ ignoresTerm' = [ignoresTerm EXCEPT ![p] = ign]
                /\ totalOutput' = [totalOutput EXCEPT ![p] = 0]
                /\ buffer' = [buffer EXCEPT ![p] = <<>>]
                /\ UNCHANGED dialogs
    /\ UNCHANGED <<timers, events, cmdResult, uncaught, stdin, received,
                   errReceived, framed, overflowHits, stopped>>

\* Mutant: the ceiling itself already counts as exceeded.
Exceeds_AtCeiling(total) == total >= MAX_TOTAL_OUTPUT

\* totalOutput > MAX_TOTAL_OUTPUT
Exceeds(total) == total > MAX_TOTAL_OUTPUT

\* Mutant: the bytes are counted on the session the handle refers to, not on
\* the session of the process the chunk came from.
StdoutData_SharedState(p, data) ==
    /\ st[p] \in {"alive", "dead", "exited"}
    /\ ops' = ops + 1
    /\ received' = [received EXCEPT ![p] = @ \o data]
    /\ totalOutput' = [totalOutput EXCEPT
           ![IF emulatorProcess # 0 THEN emulatorProcess ELSE p] = @ + StrLen(data)]
    /\ IF Exceeds(totalOutput[p] + StrLen(data))
       THEN /\ overflowHits' = [overflowHits EXCEPT ![p] = @ + 1]
            /\ IF emulatorProcess = 0
               THEN \* null.kill() throws a TypeError out of the callback
                    /\ uncaught' = uncaught + 1
                    /\ UNCHANGED <<st, exitCode, signals, events>>
               ELSE /\ st' = KillSt(emulatorProcess, "SIGTERM")
                    /\ exitCode' = KillCode(emulatorProcess, "SIGTERM")
                    /\ signals' = KillSignals(emulatorProcess, "SIGTERM", "overflow", p)
                    /\ events' = [events EXCEPT ![p] = Append(@,
                           Event("emulator:error", p, "overflow", OverflowMessage, 0))]
                    /\ UNCHANGED uncaught
            /\ UNCHANGED <<buffer, framed>>
       ELSE LET f == FrameChunk(buffer[p], data)
            IN  /\ buffer' = [buffer EXCEPT ![p] = f.buffer]
                /\ framed' = [framed EXCEPT ![p] = @ \o f.lines]
                /\ events' = [events EXCEPT ![p] = @ \o ClassifyLines(p, f.lines)]
                /\ UNCHANGED <<st, exitCode, signals, uncaught, overflowHits>>
    /\ UNCHANGED <<emulatorProcess, spawned, ignoresTerm, timers, cmdResult,
                   dialogs, stdin, errReceived, stopped, replaced>>

\* emulatorProcess.stdout.on("data") of process p.
StdoutData(p, data) ==
    /\ st[p] \in {"alive", "dead", "exited"}
    /\ ops' = ops + 1
    /\ received' = [received EXCEPT ![p] = @ \o data]
    /\ totalOutput' = [totalOutput EXCEPT ![p] = @ + StrLen(data)]
    /\ IF Exceeds(totalOutput[p] + StrLen(data))
       THEN /\ overflowHits' = [overflowHits EXCEPT ![p] = @ + 1]
            /\ IF emulatorProcess = 0
               THEN \* null.kill() throws a TypeError out of the callback
                    /\ uncaught' = uncaught + 1
                    /\ UNCHANGED <<st, exitCode, signals, events>>
               ELSE /\ st' = KillSt(emulatorProcess, "SIGTERM")
                    /\ exitCode' = KillCode(emulatorProcess, "SIGTERM")
                    /\ signals' = KillSignals(emulatorProcess, "SIGTERM", "overflow", p)
                    /\ events' = [events EXCEPT ![p] = Append(@,
                           Event("emulator:error", p, "overflow", OverflowMessage, 0))]
                    /\ UNCHANGED uncaught
            /\ UNCHANGED <<buffer, framed>>
       ELSE LET f == FrameChunk(buffer[p], data)
            IN  /\ buffer' = [buffer EXCEPT ![p] = f.buffer]
                /\ framed' = [framed EXCEPT ![p] = @ \o f.lines]
                /\ events' = [events EXCEPT ![p] = @ \o ClassifyLines(p, f.lines)]
                /\ UNCHANGED <<st, exitCode, signals, uncaught, overflowHits>>
    /\ UNCHANGED <<emulatorProcess, spawned, ignoresTerm, timers, cmdResult,
                   dialogs, stdin, errReceived, stopped, replaced>>

\* Mutant: every chunk counts as holding the text looked for.
includes_Always(s, tok) == TRUE

\* errorStr.includes(tok)
includes(s, tok) == \E k \in 1..Len(s) : s[k] = tok

\* emulatorProcess.stderr.on("data") of process p.
StderrData(p, data) ==
    /\ st[p] \in {"alive", "dead", "exited"}
    /\ ops' = ops + 1
    /\ errReceived' = [errReceived EXCEPT ![p] = Append(@, data)]
    /\ events' = [events EXCEPT ![p] = @
          \o (IF includes(data, "Error parsing")
              THEN <<Event("emulator:output", p, "errhtml", convertAnsiToHtml(data), 0)>>
              ELSE <<>>)
          \o <<Event("emulator:error", p, "stderr", data, 0)>>]
    /\ UNCHANGED <<emulatorProcess, spawned, st, ignoresTerm, exitCode,
                   totalOutput, buffer, timers, cmdResult, dialogs, uncaught,
                   stdin, signals, received, framed, overflowHits, stopped,
                   replaced>>

\* Mutant: the error handler leaves the handle as it is.
ErrorEvent_KeepsHandle(p) ==
    /\ st[p] = "failed"
    /\ st' = [st EXCEPT ![p] = "errored"]
    /\ events' = [events EXCEPT ![p] = Append(@,
           Event("emulator:error", p, "spawn", SpawnFailedMessage, 0))]
    /\ UNCHANGED <<emulatorProcess, spawned, ignoresTerm, exitCode, totalOutput,
                   buffer, timers, cmdResult, dialogs, uncaught, stdin, signals,
                   received, errReceived, framed, overflowHits, stopped,
                   replaced, ops>>

\* emulatorProcess.on("error") of process p: the spawn failed.
ErrorEvent(p) ==
    /\ st[p] = "failed"
    /\ st' = [st EXCEPT ![p] = "errored"]
    /\ events' = [events EXCEPT ![p] = Append(@,
           Event("emulator:error", p, "spawn", SpawnFailedMessage, 0))]
    /\ emulatorProcess' = 0
    /\ UNCHANGED <<spawned, ignoresTerm, exitCode, totalOutput, buffer, timers,
                   cmdResult, dialogs, uncaught, stdin, signals, received,
                   errReceived, framed, overflowHits, stopped, replaced, ops>>

\* Mutant: the code is passed on as it came.
OrZero_Identity(code) == code

\* code || 0
OrZero(code) == IF code = NoCode \/ code = 0 THEN 0 ELSE code

\* Mutant: the exit handler leaves the handle as it is.
ExitEvent_KeepsHandle(p) ==
    /\ st[p] = "dead"
    /\ st' = [st EXCEPT ![p] = "exited"]
    /\ events' = [events EXCEPT ![p] = Append(@,
           Event("emulator:exit", p, "code", <<>>, OrZero(exitCode[p])))]
    /\ UNCHANGED <<emulatorProcess, spawned, ignoresTerm, exitCode, totalOutput,
                   buffer, timers, cmdResult, dialogs, uncaught, stdin, signals,
                   received, errReceived, framed, overflowHits, stopped,
                   replaced, ops>>

\* Mutant: the exit handler hands the pending text to the classifier.
ExitEvent_FlushesTail(p) ==
    /\ st[p] = "dead"
    /\ st' = [st EXCEPT ![p] = "exited"]
    /\ events' = [events EXCEPT ![p] =
           (@ \o (IF buffer[p] # <<>> THEN ClassifyLine(p, buffer[p]) ELSE <<>>))
           \o <<Event("emulator:exit", p, "code", <<>>, OrZero(exitCode[p]))>>]
    /\ emulatorProcess' = 0
    /\ UNCHANGED <<spawned, ignoresTerm, exitCode, totalOutput, buffer, timers,
                   cmdResult, dialogs, uncaught, stdin, signals, received,
                   errReceived, framed, overflowHits, stopped, replaced, ops>>

\* emulatorProcess.on("exit") of process p.
ExitEvent(p) ==
    /\ st[p] = "dead"
    /\ st' = [st EXCEPT ![p] = "exited"]
    /\ events' = [events EXCEPT ![p] = Append(@,
           Event("emulator:exit", p, "code", <<>>, OrZero(exitCode[p])))]
    /\ emulatorProcess' = 0
    /\ UNCHANGED <<spawned, ignoresTerm, exitCode, totalOutput, buffer, timers,
                   cmdResult, dialogs, uncaught, stdin, signals, received,
                   errReceived, framed, overflowHits, stopped, replaced, ops>>

\* The process ends by itself with an exit code.
ProcessExits(p, code) ==
    /\ st[p] = "alive"
    /\ ops' = ops + 1
    /\ st' = [st EXCEPT ![p] = "dead"]
    /\ exitCode' = [exitCode EXCEPT ![p] = code]
    /\ UNCHANGED <<emulatorProcess, spawned, ignoresTerm, totalOutput, buffer,
                   timers, events, cmdResult, dialogs, uncaught, stdin, signals,
                   received, errReceived, framed, overflowHits, stopped,
                   replaced>>

\* ipcMain.handle("emulator:command")
SendCommand(command) ==
    /\ ops' = ops + 1
    /\ IF emulatorProcess = 0
       THEN /\ cmdResult' = "Emulator not running"
            /\ UNCHANGED stdin
       ELSE /\ stdin' = [stdin EXCEPT ![emulatorProcess] = @ \o <<command, "\n">>]
            /\ cmdResult' = "undefined"
    /\ UNCHANGED <<emulatorProcess, spawned, st, ignoresTerm, exitCode,
                   totalOutput, buffer, timers, events, dialogs, uncaught,
                   signals, received, errReceived, framed, overflowHits,
                   stopped, replaced>>

\* Mutant: stop waits for the exit event to clear the handle.
Stop_KeepsHandle ==
    /\ ops' = ops + 1
    /\ IF emulatorProcess # 0
       THEN /\ st' = KillSt(emulatorProcess, "SIGTERM")
            /\ exitCode' = KillCode(emulatorProcess, "SIGTERM")
            /\ signals' = KillSignals(emulatorProcess, "SIGTERM", "stop", emulatorProcess)
            /\ timers' = timers \cup {emulatorProcess}
            /\ stopped' = stopped \cup {emulatorProcess}
            /\ UNCHANGED emulatorProcess
       ELSE UNCHANGED <<st, exitCode, signals, timers, stopped, emulatorProcess>>
    /\ UNCHANGED <<spawned, ignoresTerm, totalOutput, buffer, events, cmdResult,
                   dialogs, uncaught, stdin, received, errReceived, framed,
                   overflowHits, replaced>>

\* ipcMain.handle("emulator:stop")
Stop ==
    /\ ops' = ops + 1
    /\ IF emulatorProcess # 0
       THEN /\ st' = KillSt(emulatorProcess, "SIGTERM")
            /\ exitCode' = KillCode(emulatorProcess, "SIGTERM")
            /\ signals' = KillSignals(emulatorProcess, "SIGTERM", "stop", emulatorProcess)
            /\ timers' = timers \cup {emulatorProcess}
            /\ stopped' = stopped \cup {emulatorProcess}
            /\ emulatorProcess' = 0
       ELSE UNCHANGED <<st, exitCode, signals, timers, stopped, emulatorProcess>>
    /\ UNCHANGED <<spawned, ignoresTerm, totalOutput, buffer, events, cmdResult,
                   dialogs, uncaught, stdin, received, errReceived, framed,
                   overflowHits, replaced>>

\* The setTimeout callback of the stop of process t, 1000 ms later.
StopTimer(t) ==
    /\ t \in timers
    /\ timers' = timers \ {t}
    /\ IF emulatorProcess # 0
       THEN /\ st' = KillSt(emulatorProcess, "SIGKILL")
            /\ exitCode' = KillCode(emulatorProcess, "SIGKILL")
            /\ signals' = KillSignals(emulatorProcess, "SIGKILL", "timer", t)
       ELSE UNCHANGED <<st, exitCode, signals>>
    /\ UNCHANGED <<emulatorProcess, spawned, ignoresTerm, totalOutput, buffer,
                   events, cmdResult, dialogs, uncaught, stdin, received,
                   errReceived, framed, overflowHits, stopped, replaced, ops>>

\* ------------------------------------------------------------ specifications
\* What the application's surroundings do, at most MaxOps times in a run.
StartAny ==
    /\ ops < MaxOps
    /\ \/ Start(FALSE, "failed", FALSE)
       \/ Start(TRUE, "failed", FALSE)
       \/ \E ign \in BOOLEAN : Start(TRUE, "alive", ign)
    /\ UNCHANGED xvars
StdoutAny ==
    /\ ops < MaxOps
    /\ \E p \in Procs, data \in SessionChunks : StdoutData(p, data)
    /\ UNCHANGED xvars
StderrAny ==
    /\ ops < MaxOps
    /\ \E p \in Procs, data \in ErrChunks : StderrData(p, data)
    /\ UNCHANGED xvars
ProcessExitsAny ==
    /\ ops < MaxOps
    /\ \E p \in Procs, code \in ExitCodes : ProcessExits(p, code)
    /\ UNCHANGED xvars
SendCommandAny ==
    /\ ops < MaxOps
    /\ \E command \in Commands : SendCommand(command)
    /\ UNCHANGED xvars
StopAny == ops < MaxOps /\ Stop /\ UNCHANGED xvars
\* What the event loop delivers.
ErrorAny == (\E p \in Procs : ErrorEvent(p)) /\ UNCHANGED xvars
ExitAny == (\E p \in Procs : ExitEvent(p)) /\ UNCHANGED xvars
StopTimerAny == (\E t \in Procs : StopTimer(t)) /\ UNCHANGED xvars

Next ==
    \/ StartAny
    \/ StdoutAny
    \/ StderrAny
    \/ ProcessExitsAny
    \/ SendCommandAny
    \/ StopAny
    \/ ErrorAny
    \/ ExitAny
    \/ StopTimerAny

Spec == Init /\ [][Next]_vars

\* The event loop runs every pending callback: exit and error events are
\* delivered and timers expire.  Nothing makes a live process end or write.
FairSpec ==
    /\ Spec
    /\ \A p \in Procs : WF_vars(ExitEvent(p)) /\ WF_vars(ErrorEvent(p)) /\ WF_vars(StopTimer(p))

\* One session and its stdout stream, cut into chunks at every offset.
StreamStart == spawned = 0 /\ Start(TRUE, "alive", FALSE) /\ UNCHANGED xvars
StreamData ==
    /\ \E data \in StreamChunks(MaxStream - Len(received[1])) : StdoutData(1, data)
    /\ UNCHANGED xvars
StreamExits == ProcessExits(1, 0) /\ UNCHANGED xvars
StreamExit == ExitEvent(1) /\ UNCHANGED xvars
StreamNext ==
    \/ StreamStart
    \/ StreamData
    \/ StreamExits
    \/ StreamExit

StreamSpec == Init /\ [][StreamNext]_vars

\* The renderer alone: one text of up to MaxPieces pieces is converted, then
\* one more line.
RECURSIVE NumText(_)
NumText(n) ==
    IF n < 10 THEN <<Digits[n + 1]>>
    ELSE NumText(n \div 10) \o <<Digits[(n % 10) + 1]>>

RECURSIVE NumTexts(_)
NumTexts(codes) ==
    IF codes = <<>> THEN <<>> ELSE <<NumText(Head(codes))>> \o NumTexts(Tail(codes))

\* The style sequence ESC [ code ; code ... m.
Sgr(codes) == <<"ESC", "[">> \o Join(NumTexts(codes), ";") \o <<"m">>

RenderCodes == {0, 1, 7, 31, 44}
RenderPieces ==
    {<<"X">>, <<"Y">>, <<"\r">>, <<"\n">>,
     Sgr(<<31>>), Sgr(<<44>>), Sgr(<<7>>), Sgr(<<0>>), Sgr(<<31, 44, 7>>)}
RenderInputs ==
    {Concat(ps) : ps \in UNION {[1..k -> RenderPieces] : k \in 1..MaxPieces}}
NextLines == {<<"X">>, Sgr(<<1>>) \o <<"X">>}

\* One call convertAnsiToHtml(t).
Render(t) ==
    /\ ansi' = Append(ansi, t)
    /\ html' = Append(html, convertAnsiToHtml(t))
    /\ endStyle' = ScanLoop(t, 1, <<>>, DefaultStyle, <<>>).cur
    /\ UNCHANGED <<vars, uvars, svars, bvars>>

RenderFirst == ansi = <<>> /\ \E t \in RenderInputs : Render(t)
RenderNextLine == Len(ansi) = 1 /\ \E t \in NextLines : Render(t)

RenderNext ==
    \/ RenderFirst
    \/ RenderNextLine

RenderSpec == Init /\ [][RenderNext]_<<vars, xvars>>

\* sgrToStyle alone: the codes of one style sequence are applied, one
\* iteration of its loop at a time, to a style state.
SgrCodes ==
    {0, 1, 4, 7, 21, 22, 24, 5, 29, 38, 98, 108}
    \cup (30..37) \cup (40..47) \cup (90..97) \cup (100..107)
ParamTexts ==
    {NumText(c) : c \in SgrCodes} \cup {<<>>, <<"X">>, <<"1", "X">>}
ParamLists == UNION {[1..n -> ParamTexts] : n \in 1..MaxCodes}
FullStyle ==
    [color |-> "green", background |-> "blue", bold |-> TRUE,
     underline |-> TRUE, inverse |-> TRUE]
StartStyles == {DefaultStyle, FullStyle}

\* The renderer meets ESC [ params m in state cur0 and calls sgrToStyle.
SgrCall(params, cur0) ==
    /\ sgr.pc = "idle"
    /\ sgr' = [pc |-> "loop", params |-> params,
               sgrList |-> ParseParams(params), k |-> 0, cur |-> cur0]
    /\ UNCHANGED <<vars, rvars, uvars, scan, bvars>>

\* One iteration of for (const code of sgrList).
SgrIter ==
    /\ sgr.pc = "loop"
    /\ sgr.k < Len(sgr.sgrList)
    /\ sgr' = [sgr EXCEPT !.k = @ + 1,
                          !.cur = sgrApply(sgr.sgrList[sgr.k + 1], sgr.cur)]
    /\ UNCHANGED <<vars, rvars, uvars, scan, bvars>>

\* return cur.
SgrReturn ==
    /\ sgr.pc = "loop"
    /\ sgr.k = Len(sgr.sgrList)
    /\ sgr' = [sgr EXCEPT !.pc = "returned"]
    /\ UNCHANGED <<vars, rvars, uvars, scan, bvars>>

SgrCallAny ==
    /\ sgr.pc = "idle"
    /\ \E l \in ParamLists, cur0 \in StartStyles : SgrCall(Join(l, ";"), cur0)

SgrNext ==
    \/ SgrCallAny
    \/ SgrIter
    \/ SgrReturn

SgrSpec == Init /\ [][SgrNext]_<<vars, xvars>>

\* convertAnsiToHtml one loop iteration at a time, for texts of up to
\* MaxScan pieces: markup characters, line ends, whole and broken style
\* sequences.
ScanPieces ==
    {<<"X">>, <<"<">>, <<">">>, <<"&">>, <<"\"">>, <<"\r">>, <<"\n">>,
     <<"ESC">>, <<"ESC", "[">>, <<"m">>, Sgr(<<1>>), Sgr(<<7>>)}
ScanInputs ==
    {Concat(ps) : ps \in UNION {[1..n -> ScanPieces] : n \in 1..MaxScan}}

\* The call: the loop variables as lines 93-102 set them.
ScanCall(t) ==
    /\ scan.pc = "idle"
    /\ scan' = [pc |-> "loop", input |-> t, i |-> 1, out |-> <<>>,
                cur |-> DefaultStyle, openSpan |-> <<>>, html |-> <<>>]
    /\ UNCHANGED <<vars, rvars, uvars, sgr, bvars>>

\* One iteration of while (i < input.length).
ScanIter ==
    /\ scan.pc = "loop"
    /\ scan.i <= Len(scan.input)
    /\ LET n == ScanStep(scan.input, scan.i, scan.out, scan.cur, scan.openSpan)
       IN  scan' = [scan EXCEPT !.i = n.i, !.out = n.out, !.cur = n.cur,
                                !.openSpan = n.openSpan]
    /\ UNCHANGED <<vars, rvars, uvars, sgr, bvars>>

\* The loop has ended: the open span is closed, the result wrapped and
\* returned.
ScanReturn ==
    /\ scan.pc = "loop"
    /\ scan.i > Len(scan.input)
    /\ scan' = [scan EXCEPT !.pc = "returned",
                            !.html = WrapPre(scan.out, scan.openSpan)]
    /\ UNCHANGED <<vars, rvars, uvars, sgr, bvars>>

ScanCallAny == scan.pc = "idle" /\ \E t \in ScanInputs : ScanCall(t)

ScanNext ==
    \/ ScanCallAny
    \/ ScanIter
    \/ ScanReturn

ScanSpec == Init /\ [][ScanNext]_<<vars, xvars>>

\* The preload bridge alone: the window registers and removes its
\* callbacks in any order, and the main process sends events.
Callbacks == {1, 2}

\* emitter.off(channel, listener): the most recently added instance of the
\* listener is taken out of the channel's list, if there is one.
RemoveListener(list, listener) ==
    IF \E n \in 1..Len(list) : list[n] = listener
    THEN LET last == CHOOSE n \in 1..Len(list) :
                         /\ list[n] = listener
                         /\ \A j \in n + 1..Len(list) : list[j] # listener
         IN  SubSeq(list, 1, last - 1) \o SubSeq(list, last + 1, Len(list))
    ELSE list

\* if (listeners.key) ipcRenderer.off("emulator:key", listeners.key)
OffIfSet(reg, key) ==
    IF listeners[key] # NoListener
    THEN [reg EXCEPT ![key] = RemoveListener(@, listeners[key])]
    ELSE reg

\* Mutant: the listener registered before is not removed.
On_KeepsPrevious(key, callback) ==
    LET wrapper == [id |-> bridgeOps + 1, callback |-> callback]
    IN  /\ bridgeOps < MaxBridgeOps
        /\ bridgeOps' = bridgeOps + 1
        /\ listeners' = [listeners EXCEPT ![key] = wrapper]
        /\ registered' = [registered EXCEPT ![key] = Append(@, wrapper)]
        /\ UNCHANGED <<lastCalls, vars, rvars, uvars, svars>>

\* onResponse, onOutput, onError and onExit, which differ in the key only:
\* the wrapper is a new function on every call.
On(key, callback) ==
    LET wrapper == [id |-> bridgeOps + 1, callback |-> callback]
    IN  /\ bridgeOps < MaxBridgeOps
        /\ bridgeOps' = bridgeOps + 1
        /\ listeners' = [listeners EXCEPT ![key] = wrapper]
        /\ registered' = [OffIfSet(registered, key) EXCEPT ![key] = Append(@, wrapper)]
        /\ UNCHANGED <<lastCalls, vars, rvars, uvars, svars>>

onResponse == \E callback \in Callbacks : On("response", callback)
onOutput == \E callback \in Callbacks : On("output", callback)
onError == \E callback \in Callbacks : On("error", callback)
onExit == \E callback \in Callbacks : On("exit", callback)

removeListeners ==
    /\ bridgeOps < MaxBridgeOps
    /\ bridgeOps' = bridgeOps + 1
    /\ registered' = OffIfSet(OffIfSet(OffIfSet(OffIfSet(registered,
                          "response"), "output"), "error"), "exit")
    /\ listeners' = [ch \in Channels |-> NoListener]
    /\ UNCHANGED <<lastCalls, vars, rvars, uvars, svars>>

RECURSIVE CallbacksOf(_)
CallbacksOf(list) ==
    IF list = <<>> THEN <<>> ELSE <<Head(list).callback>> \o CallbacksOf(Tail(list))

\* webContents.send on a channel: every listener registered on it runs.
Emit(key) ==
    /\ bridgeOps < MaxBridgeOps
    /\ bridgeOps' = bridgeOps + 1
    /\ lastCalls' = CallbacksOf(registered[key])
    /\ UNCHANGED <<listeners, registered, vars, rvars, uvars, svars>>

EmitAny == \E key \in Channels : Emit(key)

BridgeNext ==
    \/ onResponse
    \/ onOutput
    \/ onError
    \/ onExit
    \/ removeListeners
    \/ EmitAny

BridgeSpec == Init /\ [][BridgeNext]_<<vars, xvars>>

\* The window and the session: the user runs, steps, stops and edits, the
\* main process spawns, and the events of the session reach the window.
Contents == {0, 1}
UiChunks == {<<"a", "\n">>}

\* handleRunProgram up to its await of file:save.  (The Run buttons are
\* disabled while isRunning; MaxRuns caps the starts of one run.)
RunClick ==
    /\ ~isRunning
    /\ runPc = "idle"
    /\ spawned + dialogs < MaxRuns
    /\ payload' = editorCode
    /\ runPc' = "saving"
    /\ UNCHANGED <<isRunning, editorCode, disk, uiSeen, vars, rvars, svars, bvars>>

\* file:save writes the file; handleRunProgram goes on to setIsRunning(true)
\* and invokes emulator:start.
SaveOk ==
    /\ runPc = "saving"
    /\ disk' = payload
    /\ isRunning' = TRUE
    /\ runPc' = "starting"
    /\ UNCHANGED <<editorCode, payload, uiSeen, vars, rvars, svars, bvars>>

\* Mutant: a failed save is not noticed.
SaveFails_StartsAnyway ==
    /\ runPc = "saving"
    /\ isRunning' = TRUE
    /\ runPc' = "starting"
    /\ UNCHANGED <<editorCode, payload, disk, uiSeen, vars, rvars, svars, bvars>>

\* file:save throws; the catch of handleRunProgram sets the error and
\* setIsRunning(false), and the error effect clears the error.
SaveFails ==
    /\ runPc = "saving"
    /\ isRunning' = FALSE
    /\ runPc' = "idle"
    /\ UNCHANGED <<editorCode, payload, disk, uiSeen, vars, rvars, svars, bvars>>

\* The main process handles the emulator:start that handleRunProgram invoked.
UiStart ==
    /\ runPc = "starting"
    /\ \/ Start(FALSE, "failed", FALSE)
       \/ Start(TRUE, "failed", FALSE)
       \/ Start(TRUE, "alive", FALSE)
    /\ runPc' = "idle"
    /\ UNCHANGED <<isRunning, editorCode, payload, disk, uiSeen, rvars, svars, bvars>>

\* The user types: the editor is read-only while isRunning.
Edit ==
    /\ ~isRunning
    /\ \E c \in Contents \ {editorCode} : editorCode' = c
    /\ UNCHANGED <<isRunning, runPc, payload, disk, uiSeen, vars, rvars, svars, bvars>>

\* handleStep: the Step button is disabled unless isRunning.  (The main
\* process handles what the window invokes in the order it was invoked: a
\* command or a stop invoked after a start is handled after it.)
StepClick ==
    /\ isRunning
    /\ runPc # "starting"
    /\ ops < MaxUiOps
    /\ SendCommand("step")
    /\ UNCHANGED xvars

\* handleStopProgram: emulator:stop, then setIsRunning(false).
StopClick ==
    /\ isRunning
    /\ runPc # "starting"
    /\ ops < MaxUiOps
    /\ Stop
    /\ isRunning' = FALSE
    /\ UNCHANGED <<runPc, editorCode, payload, disk, uiSeen, rvars, svars, bvars>>

\* The next event of process p reaches its listener in the window:
\* handleError sets the error, which the error effect turns into
\* setIsRunning(false); handleExit does setIsRunning(false); handleOutput
\* and handleResponse leave isRunning alone.
UiDeliver(p) ==
    /\ uiSeen[p] < Len(events[p])
    /\ uiSeen' = [uiSeen EXCEPT ![p] = @ + 1]
    /\ isRunning' = IF events[p][uiSeen[p] + 1].ch \in {"emulator:error", "emulator:exit"}
                    THEN FALSE
                    ELSE isRunning
    /\ UNCHANGED <<runPc, editorCode, payload, disk, vars, rvars, svars, bvars>>

UiDeliverAny == \E p \in Procs : UiDeliver(p)
UiStdout ==
    /\ ops < MaxUiOps
    /\ \E p \in Procs, data \in UiChunks : StdoutData(p, data)
    /\ UNCHANGED xvars
UiStderr ==
    /\ ops < MaxUiOps
    /\ \E p \in Procs, data \in UiChunks : StderrData(p, data)
    /\ UNCHANGED xvars

UiExits ==
    /\ ops < MaxUiOps
    /\ \E p \in Procs, c \in ExitCodes : ProcessExits(p, c)
    /\ UNCHANGED xvars

UiNext ==
    \/ RunClick
    \/ SaveOk
    \/ SaveFails
    \/ UiStart
    \/ Edit
    \/ StepClick
    \/ StopClick
    \/ UiDeliverAny
    \/ UiStdout
    \/ UiStderr
    \/ UiExits
    \/ ErrorAny
    \/ ExitAny
    \/ StopTimerAny

UiSpec == Init /\ [][UiNext]_<<vars, xvars>>

\* ------------------------------------------------------------------ claims
CountEvents(p, ch) == Len(SelectSeq(events[p], LAMBDA e : e.ch = ch))
CountKind(p, kind) == Len(SelectSeq(events[p], LAMBDA e : e.kind = kind))
HasSignal(p, sig) == \E k \in 1..Len(signals[p]) : signals[p][k].sig = sig

\* C1: once the exit or error callback of a replaced process P1 has run
\* while its successor P2 is alive and stop was never called, the handle
\* still refers to P2.
C1_SecondSessionKeepsHandle ==
    \A p1, p2 \in Procs :
        ( /\ p1 \in replaced
          /\ p2 = p1 + 1
          /\ p2 = spawned
          /\ st[p1] \in {"exited", "errored"}
          /\ st[p2] = "alive"
          /\ stopped = {} )
        => emulatorProcess = p2

\* C2: a process that was running when a later start replaced it emits
\* exactly one exit event: never two, and eventually one.
C2_ExactlyOneExitOfReplaced ==
    \A p \in Procs :
        /\ [](CountEvents(p, "emulator:exit") <= 1)
        /\ (p \in replaced /\ st[p] \in {"alive", "dead", "exited"})
              ~> (CountEvents(p, "emulator:exit") = 1)

\* C3: a session whose cumulative stdout exceeds the ceiling has emitted
\* exactly one overflow error event and at most one exit event, and its
\* message and output events are those of the text received before the
\* chunk that crossed the ceiling.
C3_OneOverflowError ==
    \A p \in Procs :
        totalOutput[p] > MAX_TOTAL_OUTPUT =>
            /\ CountKind(p, "overflow") = 1
            /\ CountEvents(p, "emulator:exit") <= 1
            /\ StrLen(Concat(framed[p])) + StrLen(buffer[p]) <= MAX_TOTAL_OUTPUT

\* C4: when the grace timer of stop() has expired and the process stop()
\* was called on is still running, that process has been sent SIGKILL.
C4_ForcedKillReachesStoppedProcess ==
    \A p \in stopped :
        (p \notin timers /\ st[p] = "alive") => HasSignal(p, "SIGKILL")

\* The message and output events the stdout handler of p has sent.
StdoutEvents(p) == SelectSeq(events[p], LAMBDA e : e.kind \in {"json", "raw", "html"})

\* C5: while the total stays within the ceiling, the lines handed to the
\* classifier, the pending text and the events are those of the whole
\* text received so far framed as one chunk, however it was cut into chunks.
C5_ChunkBoundaryInvariance ==
    \A p \in Procs :
        totalOutput[p] <= MAX_TOTAL_OUTPUT =>
            LET one == FrameChunk(<<>>, received[p])
            IN  /\ framed[p] = one.lines
                /\ buffer[p] = one.buffer
                /\ StdoutEvents(p) = ClassifyLines(p, one.lines)

\* "a\r\na" delivered one character a chunk: a chunk ends between \r and \n.
C5_Witness ==
    /\ received[1] = <<"a", "\r", "\n", "a">>
    /\ st[1] = "alive"
    /\ ops = 5
    /\ framed[1] = <<<<"a">>>>
    /\ buffer[1] = <<"a">>

IsStructured(line) == startsWith(line, "{") /\ JSONParse(line).ok

C6_OutputOf(p, line) ==
    IF startsWith(line, "{")
    THEN <<Event("emulator:output", p, "raw", line, 0)>>
    ELSE IF \E k \in 1..Len(line) : ~IsWhitespace(line[k])
         THEN <<Event("emulator:output", p, "html", convertAnsiToHtml(line), 0)>>
    ELSE <<>>

RECURSIVE C6_Outputs(_, _)
C6_Outputs(p, lines) ==
    IF lines = <<>> THEN <<>>
    ELSE C6_OutputOf(p, Head(lines)) \o C6_Outputs(p, Tail(lines))

\* C6: the output events of a session are, in order, those of its complete
\* lines that are not structured messages: the raw line for a line that
\* begins with a brace, the rendered line for any other line that is not
\* blank, nothing for a blank line.
C6_FreeTextLines ==
    \A p \in Procs :
        SelectSeq(events[p], LAMBDA e : e.kind \in {"raw", "html"})
          = C6_Outputs(p, SelectSeq(framed[p], LAMBDA l : ~IsStructured(l)))

C6_Witness ==
    /\ framed[1] = <<<<"{">>, <<"a">>>>
    /\ events[1] = <<Event("emulator:output", 1, "raw", <<"{">>, 0),
                     Event("emulator:output", 1, "html", <<PreOpen, "a", PreClose>>, 0)>>

HasType(value) == \E k \in 1..Len(value) : value[k] \in {TYPE, FUTURE}
JsonPayloads(p) ==
    LET j == SelectSeq(events[p], LAMBDA e : e.ch = "emulator:response")
    IN  [k \in 1..Len(j) |-> j[k].val]
ParsedValues(lines) == [k \in 1..Len(lines) |-> JSONParse(lines[k]).value]

\* C7 as claimed: the structured messages of a session are the parsed
\* values of its lines that start with a brace, parse, and have a type.
C7_MessageIffTyped ==
    \A p \in Procs :
        JsonPayloads(p) = ParsedValues(SelectSeq(framed[p],
            LAMBDA l : IsStructured(l) /\ HasType(JSONParse(l).value)))

\* C7 as amended: the structured messages of a session are the parsed
\* values of its lines that start with a brace (untrimmed) and parse,
\* with or without a type field and whatever the type.
C7_MessageIffParses ==
    \A p \in Procs :
        JsonPayloads(p) = ParsedValues(SelectSeq(framed[p], IsStructured))

\* "{}" is forwarded as a message with no type; " {}" is not a message.
C7_Witness ==
    /\ framed[1] = <<<<"{", "}">>>>
    /\ events[1] = <<Event("emulator:response", 1, "json", <<>>, 0)>>

\* C8: the running total of a session is the length of the stdout text it
\* received, stderr not counted; a chunk takes the overflow branch exactly
\* when the total it brings about is above the ceiling; the total never
\* decreases.
C8_OverflowThreshold ==
    [][\A p \in Procs :
          /\ totalOutput'[p] = StrLen(received'[p])
          /\ totalOutput'[p] >= totalOutput[p]
          /\ (errReceived'[p] # errReceived[p] => totalOutput'[p] = totalOutput[p])
          /\ (received'[p] # received[p] =>
                (overflowHits'[p] = overflowHits[p] + 1
                    <=> totalOutput'[p] > MAX_TOTAL_OUTPUT))
          /\ (received'[p] = received[p] => overflowHits'[p] = overflowHits[p])]_vars

\* A total of exactly 65536 passed without overflow, the next chunk
\* crossed, and a stderr chunk arrived as well.
C8_Witness ==
    /\ received[1] = <<BLOCK, BLOCK, "a", "\n">>
    /\ overflowHits[1] = 1
    /\ errReceived[1] # <<>>
    /\ framed[1] = <<>>
    /\ buffer[1] = <<BLOCK, BLOCK>>

NotRunning == "Emulator not running"

\* C9: a stop() on an active process leaves the handle empty at once; with
\* the handle empty a command returns NotRunning and writes nothing, and a
\* stop() sends no signal and schedules no timer.
C9_StopClearsHandle ==
    [][/\ Stop => emulatorProcess' = 0
       /\ \A p \in Procs :
            (Stop /\ emulatorProcess = p) =>
                /\ p \in timers'
                /\ Len(signals'[p]) = Len(signals[p]) + (IF st[p] \in {"alive", "dead"} THEN 1 ELSE 0)
       /\ \A p \in stopped, c \in Commands :
            (p = spawned /\ SendCommand(c)) =>
                cmdResult' = NotRunning /\ stdin' = stdin
       /\ \A p \in stopped :
            (p = spawned /\ Stop) => UNCHANGED <<signals, timers, st>>]_vars

\* The stopped process ignored SIGTERM and is alive; a command was refused.
C9_Witness ==
    \E p \in stopped :
        /\ p = spawned
        /\ st[p] = "alive"
        /\ emulatorProcess = 0
        /\ cmdResult = NotRunning
        /\ stdin[p] = <<>>

\* No process is active: none was started, or the last one spawned has had
\* its exit or its spawn error delivered, or was stopped.
NoActiveProcess ==
    \/ spawned = 0
    \/ st[spawned] \in {"exited", "errored"}
    \/ spawned \in stopped

\* C10: a command sent while no process is active returns NotRunning,
\* writes to no process and sends no event.
C10_NotRunning ==
    [][\A c \in Commands :
          (NoActiveProcess /\ SendCommand(c)) =>
              /\ cmdResult' = NotRunning
              /\ stdin' = stdin
              /\ events' = events]_vars

C10_Witness ==
    /\ spawned > 0
    /\ st[spawned] = "exited"
    /\ spawned \notin stopped
    /\ cmdResult = NotRunning
    /\ \A p \in Procs : stdin[p] = <<>>

\* A process is active: the last one spawned is running and was not stopped.
ActiveProcess ==
    /\ spawned > 0
    /\ st[spawned] = "alive"
    /\ spawned \notin stopped

\* C11: while a process is active, a command is written, followed by one
\* "\n", after what was already written to the active process, and to no
\* other process.
C11_CommandsReachActiveProcess ==
    [][\A c \in Commands :
          (ActiveProcess /\ SendCommand(c)) =>
              stdin' = [stdin EXCEPT ![spawned] = @ \o <<c, "\n">>]]_vars

CountAll(evs, ch) ==
    LET n(p) == Len(SelectSeq(evs[p], LAMBDA e : e.ch = ch))
        sum[k \in 0..MaxStarts] == IF k = 0 THEN 0 ELSE sum[k - 1] + n(k)
    IN  sum[MaxStarts]

\* C12: a start that finds no executable spawns no process, sends exactly
\* one error event and no exit event, and throws nothing.
C12_NotFoundIsErrorEvent ==
    [][Start(FALSE, "failed", FALSE) =>
          /\ spawned' = spawned /\ st' = st /\ emulatorProcess' = emulatorProcess
          /\ CountAll(events', "emulator:error") = CountAll(events, "emulator:error") + 1
          /\ CountAll(events', "emulator:exit") = CountAll(events, "emulator:exit")
          /\ uncaught' = uncaught]_vars

\* C13: a process that a later start replaced is not left running.
C13_ReplacedIsTerminated ==
    \A p \in replaced : st[p] # "alive"

\* C14: a process whose spawn failed has sent nothing before its error is
\* delivered, which nothing keeps from happening, and exactly one error
\* event, the spawn failure, and no exit event afterwards; the delivery
\* empties the handle, and a command that follows returns NotRunning and
\* writes nothing.
C14_SpawnFailure ==
    /\ [](\A p \in Procs :
            /\ st[p] = "failed" => events[p] = <<>> /\ ENABLED ErrorEvent(p)
            /\ st[p] = "errored" =>
                  /\ events[p] = <<Event("emulator:error", p, "spawn",
                                         SpawnFailedMessage, 0)>>
                  /\ CountEvents(p, "emulator:exit") = 0
                  /\ p = spawned => emulatorProcess = 0)
    /\ [][/\ \A p \in Procs : ErrorEvent(p) => emulatorProcess' = 0
          /\ \A c \in Commands :
                (spawned > 0 /\ st[spawned] = "errored" /\ SendCommand(c)) =>
                    cmdResult' = NotRunning /\ stdin' = stdin]_vars

C14_Witness ==
    /\ spawned = 1
    /\ st[1] = "errored"
    /\ events[1] = <<Event("emulator:error", 1, "spawn", SpawnFailedMessage, 0)>>
    /\ cmdResult = NotRunning
    /\ stdin[1] = <<>>

ExitEventsOf(p) == SelectSeq(events[p], LAMBDA e : e.ch = "emulator:exit")

\* C15: a process whose exit was delivered has sent exactly one exit event,
\* with the exit code the process reported or 0 when it reported none; a
\* process whose exit was not delivered has sent none, and once it has
\* terminated nothing keeps the delivery from happening.
C15_OneExitEvent ==
    \A p \in Procs :
        IF st[p] = "exited"
        THEN /\ Len(ExitEventsOf(p)) = 1
             /\ ExitEventsOf(p)[1].code =
                    (IF exitCode[p] = NoCode THEN 0 ELSE exitCode[p])
        ELSE /\ ExitEventsOf(p) = <<>>
             /\ st[p] = "dead" => ENABLED ExitEvent(p)

C15_Witness ==
    /\ replaced = {1}
    /\ st[1] = "exited" /\ exitCode[1] = NoCode
    /\ st[2] = "exited" /\ exitCode[2] = 1
    /\ ExitEventsOf(1)[1].code = 0
    /\ ExitEventsOf(2)[1].code = 1

\* C16: no stdout chunk makes its handler throw.
C16_NoUncaughtException ==
    uncaught = 0

HasErrorParsing(chunk) == \E k \in 1..Len(chunk) : chunk[k] = "Error parsing"

StderrEventsOf(p) ==
    SelectSeq(events[p], LAMBDA e : e.kind \in {"stderr", "errhtml"})

C17_Expected(p, chunk) ==
    (IF HasErrorParsing(chunk)
     THEN <<Event("emulator:output", p, "errhtml", convertAnsiToHtml(chunk), 0)>>
     ELSE <<>>)
    \o <<Event("emulator:error", p, "stderr", chunk, 0)>>

RECURSIVE C17_ExpectedAll(_, _)
C17_ExpectedAll(p, chunks) ==
    IF chunks = <<>> THEN <<>>
    ELSE C17_Expected(p, Head(chunks)) \o C17_ExpectedAll(p, Tail(chunks))

\* C17: the events that stderr produced are, chunk by chunk, one error
\* event with the chunk as it came, preceded by one output event with the
\* rendered chunk exactly when the chunk holds "Error parsing".
C17_StderrEvents ==
    \A p \in Procs :
        /\ StderrEventsOf(p) = C17_ExpectedAll(p, errReceived[p])
        /\ CountKind(p, "stderr") = Len(errReceived[p])

C17_Witness ==
    /\ errReceived[1] = << <<"a", "\n">>, <<"Error parsing", "\n">> >>
    /\ events[1] = << Event("emulator:error", 1, "stderr", <<"a", "\n">>, 0),
                      Event("emulator:output", 1, "errhtml",
                            convertAnsiToHtml(<<"Error parsing", "\n">>), 0),
                      Event("emulator:error", 1, "stderr",
                            <<"Error parsing", "\n">>, 0) >>

\* C18: a process not yet started has an empty pending line and a zero
\* count; the count of a process is the length of what that process wrote,
\* and until its count passes the ceiling its lines and its pending line
\* are those of what that process wrote, whatever other processes wrote
\* and whenever their chunks arrived.
C18_SessionStateIsOwn ==
    \A p \in Procs :
        /\ st[p] = "none" =>
              totalOutput[p] = 0 /\ buffer[p] = <<>> /\ framed[p] = <<>>
        /\ totalOutput[p] = StrLen(received[p])
        /\ overflowHits[p] = 0 =>
              framed[p] \o <<buffer[p]>> = SplitLines(received[p], <<>>)

\* Both processes wrote, the replaced one a pending "a\n" and its successor
\* two full blocks: neither count holds the other's bytes.
C18_Witness ==
    /\ replaced = {1}
    /\ received[1] = <<"a", "\n">>
    /\ received[2] = <<BLOCK, BLOCK>>
    /\ totalOutput[1] = 2
    /\ totalOutput[2] = MAX_TOTAL_OUTPUT
    /\ framed[1] = <<<<"a">>>>
    /\ framed[2] = <<>>

\* Every "\r" of the text is the first character of a "\r\n".
WellTerminated(text) ==
    \A k \in 1..Len(text) :
        text[k] = "\r" => k < Len(text) /\ text[k + 1] = "\n"

RemoveCR(text) == SelectSeq(text, LAMBDA t : t # "\r")

NoTerminator(line) == \A k \in 1..Len(line) : line[k] \notin {"\r", "\n"}

\* C19: for a text whose lines end in "\n" or "\r\n", the lines yielded and
\* the pending text are those of the same text with every "\r\n" written
\* as "\n", and no yielded line holds a "\r" or a "\n"; "a\r\nb\n c" yields
\* "a" and "b" and leaves " c" pending.
C19_TerminatorsAlike ==
    /\ WellTerminated(received[1]) =>
          LET ref == SplitOn(RemoveCR(received[1]), "\n", <<>>)
          IN  /\ framed[1] = Front(ref)
              /\ buffer[1] = Last(ref)
              /\ \A k \in 1..Len(framed[1]) : NoTerminator(framed[1][k])
    /\ FrameChunk(<<>>, <<"a", "\r", "\n", "b", "\n", " ", "c">>) =
          [lines |-> << <<"a">>, <<"b">> >>, buffer |-> <<" ", "c">>]

\* An empty line ended by "\r\n", then "a" ended by "\n".
C19_Witness ==
    /\ received[1] = <<"\r", "\n", "a", "\n">>
    /\ framed[1] = << <<>>, <<"a">> >>
    /\ buffer[1] = <<>>

NumNewlines(text) == Len(SelectSeq(text, LAMBDA t : t = "\n"))

\* C20: stdout has produced no more events than terminators have arrived,
\* and none at all before the first; the delivery of the exit adds the exit
\* event and nothing else, and after it no event follows unless more
\* output arrives.
C20_PendingTailSilent ==
    /\ [](/\ Len(StdoutEvents(1)) <= NumNewlines(received[1])
          /\ Len(framed[1]) = NumNewlines(received[1])
          /\ StdoutEvents(1) = ClassifyLines(1, framed[1]))
    /\ [][/\ ExitEvent(1) =>
                events'[1] = Append(events[1],
                    Event("emulator:exit", 1, "code", <<>>, 0))
          /\ (st[1] = "exited" /\ received' = received) => events' = events]_vars

\* "a\na" was written and the exit delivered: "a" is still pending.
C20_Witness ==
    /\ st[1] = "exited"
    /\ received[1] = <<"a", "\n", "a">>
    /\ buffer[1] = <<"a">>
    /\ events[1] = << Event("emulator:output", 1, "html",
                            convertAnsiToHtml(<<"a">>), 0),
                      Event("emulator:exit", 1, "code", <<>>, 0) >>

SignalsBy(p, by) == SelectSeq(signals[p], LAMBDA g : g.by = by)

\* C28: a chunk that takes the overflow branch signals no process but the
\* one that wrote it.
C28_OverflowSignalsWriter ==
    \A p \in Procs :
        \A k \in 1..Len(SignalsBy(p, "overflow")) :
            SignalsBy(p, "overflow")[k].src = p

\* C29: the forced-kill timer of a stop signals no process but the one that
\* stop was called on.
C29_TimerSignalsStopped ==
    \A p \in Procs :
        \A k \in 1..Len(SignalsBy(p, "timer")) :
            SignalsBy(p, "timer")[k].src = p

\* C30: a process that was signalled for its own overflow is not left
\* running.
C30_OverflowKillIsForced ==
    \A p \in Procs :
        (\E k \in 1..Len(SignalsBy(p, "overflow")) :
            SignalsBy(p, "overflow")[k].src = p) => st[p] # "alive"

\* C38: a start that finds no executable leaves the handle, every process,
\* the signals sent, the pending lines, the byte counts, the timers and the
\* events as they are, and a command sent while the handle holds a process
\* is written to that process.
C38_FailedStartChangesNothing ==
    [][/\ dialogs' # dialogs =>
             /\ emulatorProcess' = emulatorProcess
             /\ st' = st /\ signals' = signals /\ stdin' = stdin
             /\ buffer' = buffer /\ totalOutput' = totalOutput
             /\ timers' = timers /\ events' = events
             /\ spawned' = spawned /\ uncaught' = uncaught
       /\ \A command \in Commands :
             (SendCommand(command) /\ emulatorProcess # 0) =>
                 stdin'[emulatorProcess] =
                     stdin[emulatorProcess] \o <<command, "\n">>
      ]_vars

\* Process 1 runs, a start found no executable, and the command sent
\* reached process 1, which got no signal.
C38_Witness ==
    /\ dialogs = 1
    /\ emulatorProcess = 1
    /\ st[1] = "alive"
    /\ signals[1] = <<>>
    /\ stdin[1] = <<"step", "\n">>
    /\ ops = 3

\* -------------------------------------------------------- claims: the window
\* C25: Run hands the editor content to file:save; a process is spawned
\* only by the start that follows a completed save, with the file holding
\* that content; a failed save spawns nothing and leaves isRunning false
\* and the handler finished.
C25_SaveBeforeStart ==
    [][/\ RunClick => payload' = editorCode /\ spawned' = spawned
       /\ spawned' # spawned => runPc = "starting" /\ disk = payload
       /\ (runPc # "starting" /\ runPc' = "starting") =>
              runPc = "saving" /\ disk' = payload
       /\ SaveFails => spawned' = spawned /\ ~isRunning' /\ runPc' = "idle"
      ]_<<vars, xvars>>

C25_Witness ==
    /\ spawned = 1
    /\ st[1] = "alive"
    /\ isRunning
    /\ runPc = "idle"
    /\ disk = 1
    /\ editorCode = 1

\* C26: once handleRunProgram has finished and the process it launched is
\* running, a command has been written to that process.
C26_InitialStep ==
    \A p \in Procs :
        (st[p] = "alive" /\ emulatorProcess = p /\ runPc = "idle") =>
            stdin[p] # <<>>

\* App hands isRunning || !hasFile to the editor; a file is open.
readOnly == isRunning

\* C27: while the last process started is running and stop was not
\* requested, isRunning is true and the editor read-only.
C27_ReadOnlyWhileRunning ==
    (spawned > 0 /\ st[spawned] = "alive" /\ spawned \notin stopped) =>
        isRunning /\ readOnly

\* ----------------------------------------------------- claims: the renderer
SpanOpen == "<span style=\""
SpanClose == "</span>"

IndexFrom(s, c, k) == CHOOSE j \in k..Len(s) + 1 : (j = Len(s) + 1 \/ s[j] = c) /\ \A m \in k..j - 1 : s[m] # c
Has(s, c) == \E k \in 1..Len(s) : s[k] = c
Count(s, c) == Len(SelectSeq(s, LAMBDA t : t = c))
LastPos(s, c) == IF Has(s, c) THEN CHOOSE k \in 1..Len(s) : s[k] = c /\ \A m \in k + 1..Len(s) : s[m] # c ELSE 0

\* The last span tag opened in markup h, <<>> where there is none.
LastSpan(h) ==
    LET k == LastPos(h, SpanOpen)
    IN  IF k = 0 THEN <<>> ELSE SubSeq(h, k, IndexFrom(h, "\">", k))

\* The value the style attribute of a span tag gives to a property.
ValueOf(span, key) ==
    IF Has(span, key) THEN span[LastPos(span, key) + 1] ELSE Null

FgColours == {CSS_COLORS(c) : c \in {c \in RenderCodes : (c >= 30 /\ c <= 37) \/ (c >= 90 /\ c <= 97)}}
BgColours == {CSS_COLORS(c - 10) : c \in {c \in RenderCodes : c >= 40 /\ c <= 47}}

\* C21: when the text ends with inverse active and a colour stored (and no
\* "\r" dropped the tag), the last span opened gives background the stored foreground
\* colour and color the stored background colour; the stored foreground
\* is still a colour a foreground code set and the stored background one a
\* background code set; "ESC[31;44;7mX" gives background red, color blue.
C21_InverseSwap ==
    Len(ansi) = 1 =>
        /\ (/\ endStyle.inverse
            /\ endStyle.color # Null \/ endStyle.background # Null
            /\ ~Has(ansi[1], "\r")) =>
              /\ ValueOf(LastSpan(html[1]), "background:") = endStyle.color
              /\ ValueOf(LastSpan(html[1]), "color:") = endStyle.background
        /\ endStyle.color \in FgColours \cup {Null}
        /\ endStyle.background \in BgColours \cup {Null}
        /\ ansi[1] = Sgr(<<31, 44, 7>>) \o <<"X">> =>
              /\ html[1] = <<PreOpen, SpanOpen, "background:", "red", ";",
                             "color:", "blue", "\">", "X", SpanClose, PreClose>>
              /\ endStyle = [DefaultStyle EXCEPT !.color = "red",
                                !.background = "blue", !.inverse = TRUE]

C21_Witness ==
    /\ ansi = <<Sgr(<<31, 44, 7>>) \o <<"X">>>>
    /\ html[1] = <<PreOpen, SpanOpen, "background:", "red", ";",
                   "color:", "blue", "\">", "X", SpanClose, PreClose>>

\* The text with its terminated style sequences left out.
RECURSIVE StripSgr(_)
StripSgr(s) ==
    IF s = <<>> THEN <<>>
    ELSE IF Head(s) = "ESC" /\ Len(s) >= 2 /\ s[2] = "[" /\ Has(s, "m")
         THEN StripSgr(SubSeq(s, IndexFrom(s, "m", 1) + 1, Len(s)))
    ELSE <<Head(s)>> \o StripSgr(Tail(s))

\* What markup h shows: its text without the tags, a line break as "\n".
RECURSIVE Visible(_)
Visible(h) ==
    IF h = <<>> THEN <<>>
    ELSE IF Head(h) \in {PreOpen, PreClose, SpanClose} THEN Visible(Tail(h))
    ELSE IF Head(h) = SpanOpen
         THEN Visible(SubSeq(h, IndexFrom(h, "\">", 1) + 1, Len(h)))
    ELSE IF Head(h) = "<br>" THEN <<"\n">> \o Visible(Tail(h))
    ELSE <<Head(h)>> \o Visible(Tail(h))

\* Of every line of the text, the part after its last "\r".
RECURSIVE AfterLastCR(_)
AfterLastCR(lines) ==
    IF lines = <<>> THEN <<>>
    ELSE <<Last(SplitOn(Head(lines), "\r", <<>>))>> \o AfterLastCR(Tail(lines))

\* C22: what the markup shows is, line by line, the text after the last
\* "\r" of the line; "X\rY" shows only "Y".
C22_CarriageReturn ==
    Len(ansi) = 1 =>
        SplitOn(Visible(html[1]), "\n", <<>>) =
            AfterLastCR(SplitOn(StripSgr(ansi[1]), "\n", <<>>))

C22_Witness ==
    /\ ansi = <<<<"X", "\r", "Y">>>>
    /\ html = <<<<PreOpen, "Y", PreClose>>>>

ResetSeq == Sgr(<<0>>)

\* s ends with a reset and, after it, text without style sequences.
EndsWithReset(s) ==
    /\ Has(s, "ESC")
    /\ LastPos(s, "ESC") + Len(ResetSeq) - 1 <= Len(s)
    /\ SubSeq(s, LastPos(s, "ESC"), LastPos(s, "ESC") + Len(ResetSeq) - 1) = ResetSeq

AfterReset(s) == SubSeq(s, LastPos(s, "ESC") + Len(ResetSeq), Len(s))

\* Every style sequence of s is a reset.
OnlyResets(s) ==
    \A k \in 1..Len(s) :
        s[k] = "ESC" => k + Len(ResetSeq) - 1 <= Len(s)
                        /\ SubSeq(s, k, k + Len(ResetSeq) - 1) = ResetSeq

\* C23: after a text that ends with a reset and plain text the style state
\* is the default one, and the markup ends with that plain text after as
\* many span tags closed as opened; a text whose only style sequences are
\* resets has no span tag at all.  (Texts with "\r" are C22's.)
C23_Reset ==
    Len(ansi) = 1 =>
        /\ (EndsWithReset(ansi[1]) /\ ~Has(ansi[1], "\r")) =>
              LET tail == ReplaceAll(AfterReset(ansi[1]), "\n", "<br>")
                  h == html[1]
                  before == SubSeq(h, 1, Len(h) - Len(tail) - 1)
              IN  /\ endStyle = DefaultStyle
                  /\ h = before \o tail \o <<PreClose>>
                  /\ Count(before, SpanOpen) = Count(before, SpanClose)
        /\ OnlyResets(ansi[1]) => ~Has(html[1], SpanOpen)

C23_Witness ==
    /\ ansi = <<Sgr(<<31>>) \o <<"X">> \o Sgr(<<0>>) \o <<"Y">>>>
    /\ html = <<<<PreOpen, SpanOpen, "color:", "red", "\">", "X", SpanClose,
                  "Y", PreClose>>>>

C24_Expected(t) ==
    IF t = <<"X">>
    THEN <<PreOpen, "X", PreClose>>
    ELSE <<PreOpen, SpanOpen, "font-weight:700", "\">", "X", SpanClose, PreClose>>

\* C24: the markup of the second line is what its text alone gives,
\* whatever text was rendered before it, and two calls with the same text
\* return the same markup.
C24_NoStyleAcrossCalls ==
    /\ Len(ansi) = 2 => html[2] = C24_Expected(ansi[2])
    /\ \A i, j \in 1..Len(ansi) : ansi[i] = ansi[j] => html[i] = html[j]

\* The first line left red active; the second is bold and nothing else.
C24_Witness ==
    /\ ansi = <<Sgr(<<31>>) \o <<"X">>, Sgr(<<1>>) \o <<"X">>>>
    /\ html[2] = <<PreOpen, SpanOpen, "font-weight:700", "\">", "X", SpanClose,
                   PreClose>>

\* C31: a text in which every "\r" is directly followed by "\n" loses
\* nothing: what the markup shows is the text of every line, the "\r" and
\* the style sequences left out.
C31_CRLFKeepsText ==
    (Len(ansi) >= 1 /\ WellTerminated(ansi[1])) =>
        Visible(html[1]) = RemoveCR(StripSgr(ansi[1]))

\* The span tags of markup h from token k on are balanced and not nested,
\* open telling whether a span is open before token k.
RECURSIVE Balanced(_, _, _)
Balanced(h, k, open) ==
    IF k > Len(h) THEN ~open
    ELSE IF h[k] = SpanOpen THEN ~open /\ Balanced(h, k + 1, TRUE)
    ELSE IF h[k] = SpanClose THEN open /\ Balanced(h, k + 1, FALSE)
    ELSE IF h[k] = PreClose THEN ~open /\ Balanced(h, k + 1, open)
    ELSE Balanced(h, k + 1, open)

\* C32: in the markup of every call a closing span tag closes the one span
\* opened before it, no span is opened inside another, and none is open at
\* the closing pre tag.
C32_SpansBalanced ==
    \A n \in 1..Len(html) : Balanced(html[n], 1, FALSE)

\* ---------------------------------------------------- claims: sgrToStyle
\* The colour a foreground code sets.
ForegroundOf(code) == sgrApply(code, DefaultStyle).color

\* C33: the iteration that applies a background code 40-47 or 100-107
\* leaves as background the colour the foreground code ten below it sets.
C33_BackgroundCodes ==
    (sgr.pc = "loop" /\ sgr.k >= 1) =>
        LET code == sgr.sgrList[sgr.k]
        IN  ((code >= 40 /\ code <= 47) \/ (code >= 100 /\ code <= 107)) =>
                /\ ForegroundOf(code - 10) # Null
                /\ sgr.cur.background = ForegroundOf(code - 10)

\* The code a parameter text stands for: 0 for the empty text, its value
\* for a decimal number, no code at all for any other text.
C36_CodeOf(text) ==
    IF text = <<>> THEN 0
    ELSE IF \A n \in 1..Len(text) : IsDigit(text[n]) THEN ParseDigits(text, 1, 0)
    ELSE NaN

\* The code table: what one code does to the style state s.
C36_Table(code, s) ==
    CASE code = 0 -> DefaultStyle
      [] code = 1 -> [s EXCEPT !.bold = TRUE]
      [] code \in {21, 22} -> [s EXCEPT !.bold = FALSE]
      [] code = 4 -> [s EXCEPT !.underline = TRUE]
      [] code = 24 -> [s EXCEPT !.underline = FALSE]
      [] code = 7 -> [s EXCEPT !.inverse = TRUE]
      [] code \in (30..37) \cup (90..97) -> [s EXCEPT !.color = CSS_COLORS(code)]
      [] code \in (40..47) \cup (100..107) ->
             [s EXCEPT !.background = CSS_COLORS(code - 10)]
      [] OTHER -> s

\* C36: a style sequence has one code per parameter, and every iteration
\* of sgrToStyle does to the style state what the code table says of the
\* code its parameter stands for, the codes taken from left to right.
C36_CodeByCode ==
    [][SgrIter =>
         LET parts == SplitOn(sgr.params, ";", <<>>)
         IN  /\ Len(sgr.sgrList) = Len(parts)
             /\ sgr'.cur = C36_Table(C36_CodeOf(parts[sgr.k + 1]), sgr.cur)
      ]_<<vars, xvars>>

\* ------------------------------------------- claims: the scanning loop
\* Position k of text t begins a style sequence that has its "m".
Terminated(t, k) ==
    /\ t[k] = "ESC"
    /\ k + 1 <= Len(t) /\ t[k + 1] = "["
    /\ \E j \in k + 2..Len(t) : t[j] = "m"

\* Position k of text t begins an introducer ESC [ with no "m" after it.
Malformed(t, k) ==
    /\ t[k] = "ESC"
    /\ k + 1 <= Len(t) /\ t[k + 1] = "["
    /\ \A j \in k + 2..Len(t) : t[j] # "m"

\* C34: the iteration that takes a terminated style sequence first closes
\* the span that was open, and then opens a span if and only if the style
\* state it leaves has a colour, a background, bold, underline or inverse.
C34_SpanIffStyled ==
    [][(ScanIter /\ Terminated(scan.input, scan.i)) =>
         LET closed == IF scan.openSpan # <<>>
                       THEN Append(scan.out, SpanClose) ELSE scan.out
             rest == SubSeq(scan'.out, Len(closed) + 1, Len(scan'.out))
         IN  /\ Len(scan'.out) >= Len(closed)
             /\ SubSeq(scan'.out, 1, Len(closed)) = closed
             /\ (rest # <<>> /\ Head(rest) = SpanOpen)
                    <=> scan'.cur # DefaultStyle
      ]_<<vars, xvars>>

\* C35: every iteration moves the position forward and not beyond the end
\* of the text, and once the position is behind the end the only step is
\* the return, so that the call returns after at most as many iterations
\* as the text has characters; at an introducer without "m" the iteration
\* appends the introducer as it is, leaves style and open span alone and
\* goes on at the "[", which the next iteration appends as text.
C35_MalformedAndTermination ==
    [][/\ scan'.pc = "loop" => scan'.i \in 1..Len(scan'.input) + 1
       /\ ScanIter =>
             /\ scan'.i > scan.i
             /\ scan'.pc = "loop"
             /\ Malformed(scan.input, scan.i) =>
                    /\ scan'.i = scan.i + 1
                    /\ scan'.out = Append(scan.out, "ESC")
                    /\ scan'.cur = scan.cur
                    /\ scan'.openSpan = scan.openSpan
             /\ scan.input[scan.i] = "[" =>
                    /\ scan'.i = scan.i + 1
                    /\ scan'.out = Append(scan.out, "[")
       /\ (scan.pc = "loop" /\ scan.i > Len(scan.input)) =>
             (scan' # scan => scan'.pc = "returned")
      ]_<<vars, xvars>>

\* "ESC[X" was converted: all three characters are in the result.
C35_Witness ==
    /\ scan.pc = "returned"
    /\ scan.input = <<"ESC", "[", "X">>
    /\ scan.html = <<PreOpen, "ESC", "[", "X", PreClose>>

\* The escaped form of a character of the text.
C37_Escaped(c) ==
    IF c = "&" THEN "&amp;" ELSE IF c = "<" THEN "&lt;"
    ELSE IF c = ">" THEN "&gt;" ELSE IF c = "\"" THEN "&quot;" ELSE c

RECURSIVE C37_EscapedText(_)
C37_EscapedText(t) ==
    IF t = <<>> THEN <<>> ELSE <<C37_Escaped(Head(t))>> \o C37_EscapedText(Tail(t))

MarkupChars == {"&", "<", ">", "\""}

\* C37: the output never holds a markup character of the text as it is,
\* during the loop and in the result; what the result shows is, line by
\* line and after the last "\r" of the line, the text without its
\* terminated style sequences, every markup character in escaped form.
C37_OnlyEscaped ==
    /\ \A n \in 1..Len(scan.out) : scan.out[n] \notin MarkupChars
    /\ scan.pc = "returned" =>
          /\ \A n \in 1..Len(scan.html) : scan.html[n] \notin MarkupChars
          /\ SplitOn(Visible(scan.html), "\n", <<>>) =
                AfterLastCR(SplitOn(C37_EscapedText(StripSgr(scan.input)),
                                    "\n", <<>>))

\* "ESC[1m<&" was converted: the bold span holds both characters escaped.
C37_Witness ==
    /\ scan.pc = "returned"
    /\ scan.input = Sgr(<<1>>) \o <<"<", "&">>
    /\ scan.html = <<PreOpen, SpanOpen, "font-weight:700", "\">", "&lt;",
                     "&amp;", SpanClose, PreClose>>

\* -------------------------------------------------- claims: the bridge
\* C39: every channel has at most one listener registered, which is the
\* one the map holds, so that an event runs at most one callback; a call
\* of onResponse, onOutput, onError or onExit leaves its own callback as
\* the channel's only listener, and after removeListeners no channel has a
\* listener.
C39_OneListenerPerChannel ==
    /\ [](/\ \A ch \in Channels :
               /\ Len(registered[ch]) <= 1
               /\ registered[ch] = IF listeners[ch] = NoListener
                                    THEN <<>> ELSE <<listeners[ch]>>
           /\ Len(lastCalls) <= 1)
    /\ [][/\ \A key \in Channels, callback \in Callbacks :
                 On(key, callback) =>
                     CallbacksOf(registered'[key]) = <<callback>>
          /\ removeListeners =>
                \A ch \in Channels :
                    registered'[ch] = <<>> /\ listeners'[ch] = NoListener
         ]_<<vars, xvars>>

\* onOutput was called twice and an output event sent: only the second
\* callback ran.
C39_Witness ==
    /\ registered["output"] = <<[id |-> 2, callback |-> 2]>>
    /\ lastCalls = <<2>>
    /\ bridgeOps = 3

====
